---- MODULE Spec2Model ----
(***************************************************************************)
(* Model of munet's command-line control plane (src/munet/cli.py): the     *)
(* host-prefix splitter, the help generator, the dispatcher (doline), the  *)
(* fan-out executor (run_command), the local session loop and the socket   *)
(* connection handler.                                                     *)
(*                                                                         *)
(* A line is modelled after tokenisation: str.split() and the dispatcher's *)
(* regular expression cut a line at runs of whitespace, so a line is the   *)
(* sequence of its whitespace-free tokens and " ".join(...) of a token     *)
(* list is that list again.                                                *)
(***************************************************************************)
EXTENDS Integers, Sequences, FiniteSets, TLC

\* ------------------------------------------------------------------ bounds
MaxTokens == 3      \* longest line, in tokens, given to host_cmd_split
MaxLines == 3       \* lines read by all session loops together
MaxChunks == 2      \* pieces of output the child writes to its pty
MaxKeys == 1        \* pieces of input typed on the controlling terminal

\* ------------------------------------------------------------- vocabulary
None == "<None>"                    \* the default (no-name) registry key
KnownHosts == {"r1", "r2"}          \* unet.hosts.keys()
SplitWords == {"r1", "r2", "bad", "ls"}

\* Python's ordering of the strings the model uses (str.__lt__).
WordOrder ==
  <<"bad", "cli", "h", "help", "hosts", "ls", "q", "quit", "r1", "r2",
    "sh", "term", "vt", "zz">>

Rank(w) == CHOOSE i \in 1..Len(WordOrder) : WordOrder[i] = w

SeqsUpTo(S, n) == UNION {[1..k -> S] : k \in 0..n}

\* list.insert of x into an ascending list, after the elements not above it
RECURSIVE InsertSorted(_, _)
InsertSorted(x, s) ==
  IF s = <<>> THEN <<x>>
  ELSE IF Rank(x) < Rank(Head(s)) THEN <<x>> \o s
       ELSE <<Head(s)>> \o InsertSorted(x, Tail(s))

\* sorted(list) for a list of strings
RECURSIVE Sorted(_)
Sorted(s) == IF s = <<>> THEN <<>> ELSE InsertSorted(Head(s), Sorted(Tail(s)))

\* list(set) in some order; sorted() makes the order irrelevant
RECURSIVE SetToSeq(_)
SetToSeq(S) ==
  IF S = {} THEN <<>>
  ELSE LET x == CHOOSE y \in S : TRUE IN <<x>> \o SetToSeq(S \ {x})

SortedHosts == Sorted(SetToSeq(KnownHosts))   \* sorted(unet.hosts.keys())

Drop(s, n) == SubSeq(s, n + 1, Len(s))        \* s[n:]
Take(s, n) == SubSeq(s, 1, n)                 \* s[:n]

\* --------------------------------------------------------- host_cmd_split
\* The value of the loop variable i after
\*     i = 0
\*     for i, e in enumerate(csplit):
\*         if e not in unet.hosts: break
\* (0-based): the index of the first token that is not a host, and the index
\* of the LAST token when the loop runs off the end without a break.
SplitIndex(csplit) ==
  IF \E j \in 1..Len(csplit) : csplit[j] \notin KnownHosts
  THEN (CHOOSE j \in 1..Len(csplit) :
          /\ csplit[j] \notin KnownHosts
          /\ \A k \in 1..(j - 1) : csplit[k] \in KnownHosts) - 1
  ELSE IF csplit = <<>> THEN 0 ELSE Len(csplit) - 1

\* a plausible slip: the default target list is left empty
host_cmd_split_nodefault(csplit) ==
  LET i == SplitIndex(csplit)
  IN  [hosts |-> Take(csplit, i), cmd |-> Drop(csplit, i)]

host_cmd_split(csplit) ==
  LET i == SplitIndex(csplit)
      hosts == Take(csplit, i)
  IN  [hosts |-> IF hosts = <<>> THEN SortedHosts ELSE hosts,
       cmd   |-> Drop(csplit, i)]

\* The length of the longest leading run of known host names.
RECURSIVE LeadingHosts(_)
LeadingHosts(csplit) ==
  IF csplit = <<>> \/ Head(csplit) \notin KnownHosts THEN 0
  ELSE 1 + LeadingHosts(Tail(csplit))

\* ------------------------------------------------------------ sink items
\* One piece of text handed to a sink: its kind, the host it names and the
\* tokens it carries.
Item(k, h, l) == [k |-> k, h |-> h, l |-> l]

ENDMARKER == Item("ENDMARKER", "", <<>>)     \* b"\x00END\x00"

\* ------------------------------------------------------------ the registry
\* add_cli_run_cmd / add_cli_in_window_cmd: the entries a session may hold.
\* disp is the help display string v[0]; pty is the interactive flag.
RunEntry(name) ==
  [disp |-> IF name = None THEN "run:default" ELSE "run:" \o name,
   pty  |-> (name = "vt")]

WindowEntry(name) == [disp |-> "win:" \o name]

RunNames == {None, "sh", "vt"}
WindowNames == {"term", "sh", "vt"}

\* every registry: any run-commands (the default one interactive or not) and
\* any window-commands, names shared between the two mappings included
AllRegistries ==
  {[cli_run_cmds |->
      [n \in R |-> IF n = None THEN [disp |-> "run:default", pty |-> p]
                               ELSE RunEntry(n)],
    cli_in_window_cmds |-> [n \in W |-> WindowEntry(n)]] :
     R \in SUBSET RunNames, W \in SUBSET WindowNames, p \in BOOLEAN}

\* ---------------------------------------------------------- make_help_str
BuiltinHelp == <<"cli", "help", "hosts", "quit">>

\* sorted(list(unet.cli_run_cmds) + list(unet.cli_in_window_cmds)) raises
\* TypeError when it has to compare None with a string.
HelpKeyList(reg) ==
  SetToSeq(DOMAIN reg.cli_run_cmds) \o SetToSeq(DOMAIN reg.cli_in_window_cmds)

HelpSortRaises(reg) ==
  LET keys == HelpKeyList(reg)
  IN  Len(keys) >= 2 /\ \E i \in 1..Len(keys) : keys[i] = None

HelpEntry(reg, cmd) ==
  IF cmd \in DOMAIN reg.cli_run_cmds
  THEN reg.cli_run_cmds[cmd].disp
  ELSE reg.cli_in_window_cmds[cmd].disp

\* the lines of the help text: the builtin entries, then one line per key
make_help_str(reg) ==
  LET keys == Sorted(HelpKeyList(reg))
  IN  BuiltinHelp \o [i \in 1..Len(keys) |-> HelpEntry(reg, keys[i])]

VARIABLES split, unet, sess, pty, client

vars == <<split, unet, sess, pty, client>>

\* --------------------------------------------------------------- sessions
\* local_cli and one socket connection served by cli_client_connected share
\* the event loop; they interleave at their awaits.
Conns == {"c1"}
Sessions == {"local"} \cup Conns

notty(s) == s \in Conns             \* doline(..., notty=True) on a socket

\* the lines a session loop reads
SessionLines ==
  { <<>>, <<"q">>, <<"quit">>, <<"help">>, <<"hosts">>, <<"cli">>,
    <<"sh", "r1", "ls">>, <<"sh", "r2", "r1", "ls">>, <<"sh", "bad", "ls">>,
    <<"vt", "r1">>, <<"term", "r1", "r2">>, <<"term", "*">>,
    <<"term", "bad", "r1">>, <<"r1", "ls">>, <<"bad", "ls">>, <<"zz">> }

\* what one host's captured command comes back with from asyncio.gather:
\* (0, o, e), (rc, o, e) with rc non-zero, or an exception object
Results == {"ok", "fail", "exc"}

Unknowns(names) == SelectSeq(names, LAMBDA x : x \notin KnownHosts)

\* the outcome of a call: how it ends (kind), what it hands to the sink
\* before that (writes), what it has started on the hosts (launched) and, for
\* a captured fan-out, its targets and residual command
Outcome(kind, writes, launched, hosts, cmd) ==
  [kind |-> kind, writes |-> writes, launched |-> launched,
   hosts |-> hosts, cmd |-> cmd]

Return(kind, writes, launched) == Outcome(kind, writes, launched, <<>>, <<>>)

\* with_pty branch of run_command: one spawn per host, in order, bracketed
\* when more than one host is targeted, then a newline
RECURSIVE PtyWrites(_, _)
PtyWrites(hosts, many) ==
  IF hosts = <<>> THEN <<Item("newline", "", <<>>)>>
  ELSE (IF many THEN <<Item("host_begin", Head(hosts), <<>>)>> ELSE <<>>)
       \o <<Item("cr", "", <<>>), Item("pty_output", Head(hosts), <<>>)>>
       \o (IF many THEN <<Item("host_end", Head(hosts), <<>>)>> ELSE <<>>)
       \o PtyWrites(Tail(hosts), many)

Launches(how, hosts) == [i \in 1..Len(hosts) |-> [how |-> how, h |-> hosts[i]]]

\* run_command up to its first await: the split, the unknown-host check, the
\* interactive branch, or the launch of the captured commands.  The command
\* text each host gets (execfmt.format(ucmd) with %INSTANCE% and %NAME%
\* replaced) is carried as the residual tokens; on_host only selects which
\* of the host's two capture methods is called.
run_command(l, with_pty) ==
  LET sp == host_cmd_split(l)
      unknowns == Unknowns(sp.hosts)
  IN  IF unknowns # <<>>
      THEN Return("continue", <<Item("unknown_hosts", "", unknowns)>>, <<>>)
      ELSE IF with_pty
      THEN Return("continue", PtyWrites(sp.hosts, Len(sp.hosts) > 1),
                  Launches("popen", sp.hosts))
      ELSE Outcome("gather", <<>>, Launches("cmd", sp.hosts), sp.hosts, sp.cmd)

\* the result loop of run_command after asyncio.gather: unpacking a result
\* that is an exception raises TypeError, after the blocks before it
RECURSIVE ResultWrites(_, _, _, _)
ResultWrites(hosts, results, cmd, many) ==
  IF hosts = <<>> \/ Head(results) = "exc" THEN <<>>
  ELSE (IF many THEN <<Item("host_begin", Head(hosts), <<>>)>> ELSE <<>>)
       \o (IF Head(results) = "fail"
           THEN <<Item("nonzero_exit", "", <<>>)>> ELSE <<>>)
       \o <<Item("output", Head(hosts), cmd)>>
       \o (IF many THEN <<Item("host_end", Head(hosts), <<>>)>> ELSE <<>>)
       \o ResultWrites(Tail(hosts), Tail(results), cmd, many)

run_command_results(hosts, results, cmd) ==
  Return(IF \E i \in 1..Len(results) : results[i] = "exc"
         THEN "raise" ELSE "continue",
         ResultWrites(hosts, results, cmd, Len(hosts) > 1), <<>>)

\* the window-command branch of doline; fails is the position of the host
\* whose run_in_window raises, 0 when none does
window_cmd(nline, fails) ==
  LET args == IF nline = <<"*">> THEN SortedHosts ELSE nline
      unknowns == Unknowns(args)
  IN  IF unknowns # <<>>
      THEN Return("continue", <<Item("unknown_hosts_w", "", unknowns)>>, <<>>)
      ELSE IF fails \in 1..Len(args)
      THEN Return("continue", <<Item("error", args[fails], <<>>)>>,
                  Launches("window", Take(args, fails - 1)))
      ELSE Return("continue", <<>>, Launches("window", args))

InteractiveError ==
  Return("continue", <<Item("error_interactive", "", <<>>)>>, <<>>)

\* a plausible slip: the run-commands are looked up before the
\* window-commands
doline_runfirst(reg, l, tty_less, fails) ==
  IF l = <<>> THEN Return("continue", <<>>, <<>>)
  ELSE
  LET cmd == Head(l)
      nline == Tail(l)
  IN  IF cmd \in {"q", "quit"} THEN Return("stop", <<>>, <<>>)
      ELSE IF cmd = "help"
      THEN IF HelpSortRaises(reg) THEN Return("raise", <<>>, <<>>)
           ELSE Return("continue", <<Item("help", "", make_help_str(reg))>>,
                       <<>>)
      ELSE IF cmd \in {"h", "hosts"}
      THEN Return("continue", <<Item("hosts", "", SortedHosts)>>, <<>>)
      ELSE IF cmd = "cli" THEN Return("remote_cli", <<>>, <<>>)
      ELSE IF cmd \in DOMAIN reg.cli_run_cmds
      THEN IF reg.cli_run_cmds[cmd].pty /\ tty_less THEN InteractiveError
           ELSE run_command(nline, reg.cli_run_cmds[cmd].pty)
      ELSE IF cmd \in DOMAIN reg.cli_in_window_cmds
      THEN window_cmd(nline, fails)
      ELSE IF None \in DOMAIN reg.cli_run_cmds
      THEN IF reg.cli_run_cmds[None].pty /\ tty_less THEN InteractiveError
           ELSE run_command(l, reg.cli_run_cmds[None].pty)
      ELSE Return("continue", <<Item("unknown_command", "", l)>>, <<>>)

\* doline up to its first await
doline(reg, l, tty_less, fails) ==
  IF l = <<>> THEN Return("continue", <<>>, <<>>)
  ELSE
  LET cmd == Head(l)
      nline == Tail(l)
  IN  IF cmd \in {"q", "quit"} THEN Return("stop", <<>>, <<>>)
      ELSE IF cmd = "help"
      THEN IF HelpSortRaises(reg) THEN Return("raise", <<>>, <<>>)
           ELSE Return("continue", <<Item("help", "", make_help_str(reg))>>,
                       <<>>)
      ELSE IF cmd \in {"h", "hosts"}
      THEN Return("continue", <<Item("hosts", "", SortedHosts)>>, <<>>)
      ELSE IF cmd = "cli" THEN Return("remote_cli", <<>>, <<>>)
      ELSE IF cmd \in DOMAIN reg.cli_in_window_cmds
      THEN window_cmd(nline, fails)
      ELSE IF cmd \in DOMAIN reg.cli_run_cmds
      THEN IF reg.cli_run_cmds[cmd].pty /\ tty_less THEN InteractiveError
           ELSE run_command(nline, reg.cli_run_cmds[cmd].pty)
      ELSE IF None \in DOMAIN reg.cli_run_cmds
      THEN IF reg.cli_run_cmds[None].pty /\ tty_less THEN InteractiveError
           ELSE run_command(l, reg.cli_run_cmds[None].pty)
      ELSE Return("continue", <<Item("unknown_command", "", l)>>, <<>>)

\* sink.write of each piece in turn.  The local sink is sys.stdout.  On a
\* socket the sink is the asyncio StreamWriter, whose write() takes bytes
\* only: handed a str it raises TypeError and nothing is sent.
SinkWrite(s, out, writes) ==
  IF s \in Conns /\ writes # <<>>
  THEN [out |-> out, ok |-> FALSE]
  ELSE [out |-> out \o writes, ok |-> TRUE]

\* a plausible slip: the loop goes on reading after doline returned False
LoopAfter_ignorestop(s, rec, oc) ==
  LET w == SinkWrite(s, rec.out, oc.writes)
  IN  IF oc.kind = "raise" \/ ~w.ok
      THEN [rec EXCEPT !.pc = "crashed", !.ret = "raise", !.out = w.out]
      ELSE IF s \in Conns
      THEN [rec EXCEPT !.pc = "await_line", !.ret = oc.kind,
                       !.out = w.out \o <<ENDMARKER>>,
                       !.nresp = rec.nresp + 1]
      ELSE [rec EXCEPT !.pc = "await_line", !.ret = oc.kind, !.out = w.out]

\* a plausible slip: a connection goes back to reading without the ENDMARKER
LoopAfter_nosentinel(s, rec, oc) ==
  LET w == SinkWrite(s, rec.out, oc.writes)
  IN  IF oc.kind = "raise" \/ ~w.ok
      THEN [rec EXCEPT !.pc = "crashed", !.ret = "raise", !.out = w.out]
      ELSE IF oc.kind = "stop"
      THEN [rec EXCEPT !.pc = "done", !.ret = "stop", !.out = w.out]
      ELSE [rec EXCEPT !.pc = "await_line", !.ret = "continue",
                       !.out = w.out]

\* The session loop after a doline call that ended: local_cli returns on
\* False and goes on on True; cli_client_connected also writes the ENDMARKER
\* and drains before it reads again; an exception ends either loop.
LoopAfter(s, rec, oc) ==
  LET w == SinkWrite(s, rec.out, oc.writes)
  IN  IF oc.kind = "raise" \/ ~w.ok
      THEN [rec EXCEPT !.pc = "crashed", !.ret = "raise", !.out = w.out]
      ELSE IF oc.kind = "stop"
      THEN [rec EXCEPT !.pc = "done", !.ret = "stop", !.out = w.out]
      ELSE IF s \in Conns
      THEN [rec EXCEPT !.pc = "await_line", !.ret = "continue",
                       !.out = w.out \o <<ENDMARKER>>,
                       !.nresp = rec.nresp + 1]
      ELSE [rec EXCEPT !.pc = "await_line", !.ret = "continue",
                       !.out = w.out]

\* ------------------------------------------------------------------ spawn
\* The PTY bridge, one call of spawn.  tty is the discipline of the
\* controlling terminal and tty0 what it was on entry; master counts the
\* pieces the child wrote that the bridge has not read, stdin the pieces
\* typed that it has not read.
NoPty ==
  [pc |-> "entry", isatty |-> FALSE, tty0 |-> "cooked", tty |-> "cooked",
   old_tty |-> "unset", child |-> "none", master |-> 0, written |-> 0,
   sink |-> 0, stdin |-> 0, typed |-> 0, stdin_eof |-> FALSE,
   eof_seen |-> FALSE, to_child |-> 0]

\* a plausible slip: the discipline is restored on the normal path only
spawn_finally_onreturn(p, how) ==
  [p EXCEPT !.pc = how,
            !.tty = IF p.isatty /\ how = "returned" THEN p.old_tty ELSE p.tty]

\* the finally clause: termios.tcsetattr(sys.stdin, TCSADRAIN, old_tty) when
\* stdin is a terminal, then spawn returns or the exception goes on
spawn_finally(p, how) ==
  [p EXCEPT !.pc = how, !.tty = IF p.isatty THEN p.old_tty ELSE p.tty]

\* if sys.stdin.isatty(): old_tty = tcgetattr(...); tty.setraw(...)
SpawnEnter ==
  /\ pty.pc = "entry"
  /\ pty' = IF pty.isatty
            THEN [pty EXCEPT !.pc = "openpty", !.old_tty = pty.tty,
                             !.tty = "raw"]
            ELSE [pty EXCEPT !.pc = "openpty"]
  /\ UNCHANGED <<split, unet, sess, client>>

\* pty.openpty() returns the pair, or raises OSError
SpawnOpenPty(ok) ==
  /\ pty.pc = "openpty"
  /\ pty' = IF ok THEN [pty EXCEPT !.pc = "popen"]
            ELSE spawn_finally(pty, "raised")
  /\ UNCHANGED <<split, unet, sess, client>>

\* unet.hosts[host].popen(...) starts the child and "\r" is written, or
\* popen raises
SpawnPopen(ok) ==
  /\ pty.pc = "popen"
  /\ pty' = IF ok THEN [pty EXCEPT !.pc = "poll", !.child = "running"]
            ELSE spawn_finally(pty, "raised")
  /\ UNCHANGED <<split, unet, sess, client>>

\* while p.poll() is None
SpawnPoll ==
  /\ pty.pc = "poll"
  /\ pty' = IF pty.child = "running" THEN [pty EXCEPT !.pc = "select"]
            ELSE spawn_finally(pty, "returned")
  /\ UNCHANGED <<split, unet, sess, client>>

\* select.select([sys.stdin, master_fd], [], [], 0.25) returns and the body
\* of the loop runs: terminal input, when there is any (b"" once the
\* terminal input is closed), goes to the pty; otherwise (elif) pty output
\* goes to the sink; on a timeout nothing is read
SpawnSelect ==
  /\ pty.pc = "select"
  /\ pty' = IF pty.stdin > 0
            THEN [pty EXCEPT !.pc = "poll", !.stdin = 0,
                             !.to_child = pty.to_child + pty.stdin]
            ELSE IF pty.stdin_eof
            THEN [pty EXCEPT !.pc = "poll", !.eof_seen = TRUE]
            ELSE IF pty.master > 0
            THEN [pty EXCEPT !.pc = "poll", !.master = 0,
                             !.sink = pty.sink + pty.master]
            ELSE [pty EXCEPT !.pc = "poll"]
  /\ UNCHANGED <<split, unet, sess, client>>

\* select, os.read, os.write or the decoding of the output raises
SpawnLoopRaises ==
  /\ pty.pc = "select"
  /\ pty' = spawn_finally(pty, "raised")
  /\ UNCHANGED <<split, unet, sess, client>>

\* the child writes to its terminal
ChildWrites ==
  /\ pty.child = "running"
  /\ pty.written < MaxChunks
  /\ pty' = [pty EXCEPT !.master = pty.master + 1,
                        !.written = pty.written + 1]
  /\ UNCHANGED <<split, unet, sess, client>>

ChildExits ==
  /\ pty.child = "running"
  /\ pty' = [pty EXCEPT !.child = "exited"]
  /\ UNCHANGED <<split, unet, sess, client>>

\* the operator types on the controlling terminal
KeyPress ==
  /\ ~pty.stdin_eof
  /\ pty.typed < MaxKeys
  /\ pty' = [pty EXCEPT !.stdin = pty.stdin + 1, !.typed = pty.typed + 1]
  /\ UNCHANGED <<split, unet, sess, client>>

\* the controlling terminal's input stream closes
StdinCloses ==
  /\ ~pty.stdin_eof
  /\ pty' = [pty EXCEPT !.stdin_eof = TRUE]
  /\ UNCHANGED <<split, unet, sess, client>>

NoSplit == [line |-> <<>>, called |-> FALSE, hosts |-> <<>>, cmd |-> <<>>]

\* a cli_client program: not started, at its prompt (input), collecting a
\* response (the recv loop) or ended; closed says that the server's end of
\* its connection is closed, so that recv gives b"" and send fails
NoClient == [pc |-> "none", closed |-> FALSE]

InitSession(s) ==
  [pc |-> IF s = "local" THEN "await_line" ELSE "idle",
   line |-> <<>>, out |-> <<>>, ret |-> "none", launched |-> <<>>,
   hosts |-> <<>>, results |-> <<>>, cmd |-> <<>>, nreq |-> 0, nresp |-> 0]

\* the registries the session loops are run with
SessionRegistries ==
  {r \in AllRegistries :
     /\ {"sh", "vt"} \subseteq DOMAIN r.cli_run_cmds
     /\ DOMAIN r.cli_in_window_cmds = {"term"}}

Init ==
  /\ split = NoSplit
  /\ pty = NoPty
  /\ \E r \in SessionRegistries :
       unet = [cli_run_cmds |-> r.cli_run_cmds,
               cli_in_window_cmds |-> r.cli_in_window_cmds,
               cli_sockpath |-> 0, servers |-> 0, windows |-> 0]
  /\ sess = [s \in Sessions |-> InitSession(s)]
  /\ client = [c \in Conns |-> NoClient]

\* a plausible slip: the presence check is missing, every request starts a
\* server
remote_cli_nocheck(sockpath) == "start_server"

\* remote_cli's presence check: with no path recorded it goes on to create
\* the server (awaiting asyncio.start_unix_server), otherwise straight to
\* the window launch (awaiting async_get_exec_path)
remote_cli(sockpath) == IF sockpath = 0 THEN "start_server" ELSE "exec_path"

RECURSIVE SumReq(_)
SumReq(S) ==
  IF S = {} THEN 0
  ELSE LET s == CHOOSE x \in S : TRUE IN sess[s].nreq + SumReq(S \ {s})

\* a session loop gets a line (async_input / reader.readline) and calls
\* doline, which runs to its first await.  The line a connection's handler
\* reads is the one its cli_client sent from its prompt (sock.send), and that
\* client is then collecting the response.
ReadLine(s, l, fails) ==
  /\ sess[s].pc = "await_line"
  /\ SumReq(Sessions) < MaxLines
  /\ s \in Conns => (client[s].pc = "prompt" /\ ~client[s].closed)
  /\ client' = IF s \in Conns THEN [client EXCEPT ![s].pc = "recv"]
               ELSE client
  /\ LET oc == doline(unet, l, notty(s), fails)
         rec == [sess[s] EXCEPT !.line = l, !.out = <<>>, !.ret = "none",
                                !.launched = oc.launched, !.hosts = oc.hosts,
                                !.cmd = oc.cmd,
                                !.results = [i \in 1..Len(oc.hosts) |-> "pending"],
                                !.nreq = sess[s].nreq + 1]
     IN  sess' = [sess EXCEPT ![s] =
                    IF oc.kind = "gather" THEN [rec EXCEPT !.pc = "gather"]
                    ELSE IF oc.kind = "remote_cli"
                    THEN [rec EXCEPT !.pc = remote_cli(unet.cli_sockpath)]
                    ELSE LoopAfter(s, rec, oc)]
  /\ UNCHANGED <<split, unet, pty>>

\* a plausible slip: the wait ends with the first completed command
gather_ready_first(results) ==
  \E i \in 1..Len(results) : results[i] # "pending"

\* asyncio.gather(*aws, return_exceptions=True) returns when every awaitable
\* has completed, by a result or by an exception
gather_ready(results) ==
  \A i \in 1..Len(results) : results[i] # "pending"

\* one host's captured command completes while run_command awaits gather
HostResult(s, i, r) ==
  /\ sess[s].pc = "gather"
  /\ i \in 1..Len(sess[s].results)
  /\ sess[s].results[i] = "pending"
  /\ sess' = [sess EXCEPT ![s].results[i] = r]
  /\ UNCHANGED <<split, unet, pty, client>>

\* asyncio.gather returns: run_command writes the results and doline returns
GatherDone(s) ==
  /\ sess[s].pc = "gather"
  /\ gather_ready(sess[s].results)
  /\ sess' = [sess EXCEPT ![s] =
                LoopAfter(s, sess[s],
                          run_command_results(sess[s].hosts, sess[s].results,
                                              sess[s].cmd))]
  /\ UNCHANGED <<split, unet, pty, client>>

\* remote_cli: asyncio.start_unix_server returns, the server task is created
\* and its path recorded on the session object
StartServer(s) ==
  /\ sess[s].pc = "start_server"
  /\ unet' = [unet EXCEPT !.servers = unet.servers + 1,
                          !.cli_sockpath = unet.servers + 1]
  /\ sess' = [sess EXCEPT ![s].pc = "exec_path"]
  /\ UNCHANGED <<split, pty, client>>

\* remote_cli: async_get_exec_path returns, the client window is launched
\* and doline returns True
LaunchWindow(s) ==
  /\ sess[s].pc = "exec_path"
  /\ unet' = [unet EXCEPT !.windows = unet.windows + 1]
  /\ sess' = [sess EXCEPT ![s] =
                LoopAfter(s, sess[s], Return("continue", <<>>, <<>>))]
  /\ UNCHANGED <<split, pty, client>>

\* remote_cli: start_unix_server, async_get_exec_path or run_in_window
\* raises; the exception is logged and doline returns True
RemoteCliFails(s) ==
  /\ sess[s].pc \in {"start_server", "exec_path"}
  /\ sess' = [sess EXCEPT ![s] =
                LoopAfter(s, sess[s], Return("continue", <<>>, <<>>))]
  /\ UNCHANGED <<split, unet, pty, client>>

\* the cli_client of a launched window connects to the control socket
Connect(c) ==
  /\ sess[c].pc = "idle"
  /\ unet.cli_sockpath # 0
  /\ unet.windows > 0
  /\ sess' = [sess EXCEPT ![c].pc = "await_line"]
  /\ client' = [client EXCEPT ![c].pc = "prompt"]
  /\ UNCHANGED <<split, unet, pty>>

\* end of input: async_input gives None; reader.readline gives b"" when the
\* cli_client at its prompt has ended (input raises EOFError) and its socket
\* is closed
EndOfInput(s) ==
  /\ sess[s].pc = "await_line"
  /\ sess' = [sess EXCEPT ![s].pc = "done"]
  /\ s \in Conns => client[s].pc = "prompt"
  /\ client' = IF s \in Conns THEN [client EXCEPT ![s].pc = "ended"]
               ELSE client
  /\ UNCHANGED <<split, unet, pty>>

\* cli_client's recv loop gets the rest of a response: the buffer ends with
\* the ENDMARKER, the text before it is printed and the client prompts again
ClientRecv(c) ==
  /\ client[c].pc = "recv"
  /\ sess[c].nresp = sess[c].nreq
  /\ client' = [client EXCEPT ![c].pc = "prompt"]
  /\ UNCHANGED <<split, unet, sess, pty>>

\* sock.recv gives b"" because the server's end is closed: cli_client returns
ClientRecvClosed(c) ==
  /\ client[c].pc = "recv"
  /\ client[c].closed
  /\ client' = [client EXCEPT ![c].pc = "ended"]
  /\ UNCHANGED <<split, unet, sess, pty>>

\* sock.send on a connection whose server end is closed raises: cli_client
\* ends
ClientSendFails(c) ==
  /\ client[c].pc = "prompt"
  /\ client[c].closed
  /\ client' = [client EXCEPT ![c].pc = "ended"]
  /\ UNCHANGED <<split, unet, sess, pty>>

\* The primary CLI has ended: asyncio.run returns in cli, the event loop is
\* gone and with it the server's end of every connection.  Nothing in
\* cli_client_connected closes its writer, so this is the only place where a
\* connection whose handler returned normally gets closed.
ServerEnds ==
  /\ sess["local"].pc \in {"done", "crashed"}
  /\ \E c \in Conns : client[c].pc # "none" /\ ~client[c].closed
  /\ client' = [c \in Conns |->
                 IF client[c].pc # "none"
                 THEN [client[c] EXCEPT !.closed = TRUE] ELSE client[c]]
  /\ UNCHANGED <<split, unet, sess, pty>>

\* A handler that ended by an exception: asyncio's stream protocol closes the
\* transport in the task's done-callback from Python 3.12 on and leaves it
\* open before, so the close may or may not happen.
CrashCloses(c) ==
  /\ sess[c].pc = "crashed"
  /\ ~client[c].closed
  /\ client' = [client EXCEPT ![c].closed = TRUE]
  /\ UNCHANGED <<split, unet, sess, pty>>

Next ==
  \/ \E s \in Sessions, l \in SessionLines, fails \in 0..2 :
       ReadLine(s, l, fails)
  \/ \E s \in Sessions, i \in 1..2, r \in Results : HostResult(s, i, r)
  \/ \E s \in Sessions : GatherDone(s)
  \/ \E s \in Sessions : StartServer(s)
  \/ \E s \in Sessions : LaunchWindow(s)
  \/ \E s \in Sessions : RemoteCliFails(s)
  \/ \E c \in Conns : Connect(c)
  \/ \E s \in Sessions : EndOfInput(s)
  \/ \E c \in Conns : ClientRecv(c)
  \/ \E c \in Conns : ClientRecvClosed(c)
  \/ \E c \in Conns : ClientSendFails(c)
  \/ ServerEnds
  \/ \E c \in Conns : CrashCloses(c)

Spec == Init /\ [][Next]_vars

\* what the event loop runs by itself once it is ready: the completion of a
\* launched command, the return of gather and the awaits of remote_cli.  A
\* line arriving, a connection and the end of input are up to the operator
\* and the clients.
LoopStep ==
  \/ \E s \in Sessions, i \in 1..2 : HostResult(s, i, "ok")
  \/ \E s \in Sessions : GatherDone(s)
  \/ \E s \in Sessions : StartServer(s)
  \/ \E s \in Sessions : LaunchWindow(s)

SpecLoop == Spec /\ WF_vars(LoopStep)

\* what happens by itself on the client side and at the end of the process:
\* a recv that can return does, and a process whose primary CLI has ended
\* goes away
ClientStep ==
  \/ \E c \in Conns : ClientRecv(c)
  \/ \E c \in Conns : ClientRecvClosed(c)
  \/ ServerEnds

SpecClient == Spec /\ WF_vars(LoopStep) /\ WF_vars(ClientStep)

\* ------------------------------------------- host_cmd_split on every line
SplitInit ==
  /\ \E l \in SeqsUpTo(SplitWords, MaxTokens) :
       split = [line |-> l, called |-> FALSE, hosts |-> <<>>, cmd |-> <<>>]
  /\ unet = [cli_run_cmds |-> <<>>, cli_in_window_cmds |-> <<>>,
             cli_sockpath |-> 0, servers |-> 0, windows |-> 0]
  /\ sess = [s \in Sessions |-> InitSession(s)]
  /\ client = [c \in Conns |-> NoClient]
  /\ pty = NoPty

SplitCall ==
  /\ ~split.called
  /\ LET r == host_cmd_split(split.line)
     IN  split' = [line |-> split.line, called |-> TRUE,
                   hosts |-> r.hosts, cmd |-> r.cmd]
  /\ UNCHANGED <<unet, sess, pty, client>>

SplitNext == SplitCall

SpecSplit == SplitInit /\ [][SplitNext]_vars

\* ------------------------------------------------ help on every registry
HelpInit ==
  /\ split = NoSplit
  /\ pty = NoPty
  /\ \E r \in AllRegistries :
       unet = [cli_run_cmds |-> r.cli_run_cmds,
               cli_in_window_cmds |-> r.cli_in_window_cmds,
               cli_sockpath |-> 0, servers |-> 0, windows |-> 0]
  /\ sess = [s \in Sessions |-> InitSession(s)]
  /\ client = [c \in Conns |-> NoClient]

HelpNext == ReadLine("local", <<"help">>, 0)

SpecHelp == HelpInit /\ [][HelpNext]_vars

\* ------------------------------------- doline on registries of any names
DispatchLines ==
  { <<"q", "r1">>, <<"hosts", "r1">>, <<"help", "r1">>, <<"cli", "r1">>,
    <<"sh", "r1", "ls">>, <<"term", "r1">>, <<"r1", "ls">>, <<"zz", "r1">> }

\* registries whose names may equal a builtin or sit in both mappings
DispatchRegistries ==
  {[cli_run_cmds |-> [n \in R |-> RunEntry(n)],
    cli_in_window_cmds |-> [n \in W |-> WindowEntry(n)]] :
     R \in SUBSET {None, "sh", "hosts", "q"},
     W \in SUBSET {"term", "sh", "help"}}

\* the primary CLI at its prompt and one secondary CLI connected
DispatchInit ==
  /\ split = NoSplit
  /\ pty = NoPty
  /\ \E r \in DispatchRegistries :
       unet = [cli_run_cmds |-> r.cli_run_cmds,
               cli_in_window_cmds |-> r.cli_in_window_cmds,
               cli_sockpath |-> 1, servers |-> 1, windows |-> 1]
  /\ sess = [s \in Sessions |-> [InitSession(s) EXCEPT !.pc = "await_line"]]
  /\ client = [c \in Conns |-> [NoClient EXCEPT !.pc = "prompt"]]

DispatchNext ==
  \/ \E s \in Sessions, l \in DispatchLines, fails \in 0..1 :
       ReadLine(s, l, fails)
  \/ \E c \in Conns : ClientRecv(c)

SpecDispatch == DispatchInit /\ [][DispatchNext]_vars

\* ------------------------------------------------------- one spawn call
PtyInit ==
  /\ split = NoSplit
  /\ unet = [cli_run_cmds |-> <<>>, cli_in_window_cmds |-> <<>>,
             cli_sockpath |-> 0, servers |-> 0, windows |-> 0]
  /\ sess = [s \in Sessions |-> InitSession(s)]
  /\ client = [c \in Conns |-> NoClient]
  /\ \E a \in BOOLEAN, d \in {"cooked", "cbreak"} :
       pty = [NoPty EXCEPT !.isatty = a, !.tty0 = d, !.tty = d]

PtyNext ==
  \/ SpawnEnter
  \/ \E ok \in BOOLEAN : SpawnOpenPty(ok)
  \/ \E ok \in BOOLEAN : SpawnPopen(ok)
  \/ SpawnPoll
  \/ SpawnSelect
  \/ SpawnLoopRaises
  \/ ChildWrites
  \/ ChildExits
  \/ KeyPress
  \/ StdinCloses

SpecPty == PtyInit /\ [][PtyNext]_vars

\* ----------------------------------------------------------------- claims
\* session s has read a line and its doline call has ended
Handled(s) == sess[s].nreq > 0 /\ sess[s].ret # "none"

\* what cli_client prints for a response: the bytes before the ENDMARKER
\* once the buffer ends with it; nothing when no ENDMARKER arrives
ClientPrints(out) ==
  IF out # <<>> /\ out[Len(out)] = ENDMARKER THEN Take(out, Len(out) - 1)
  ELSE <<>>

\* the text a session's sink got, without the framing
SinkText(s) ==
  SelectSeq(sess[s].out, LAMBDA x : x # ENDMARKER)

Brackets(out) ==
  SelectSeq(out, LAMBDA x : x.k \in {"host_begin", "host_end"})

RECURSIVE ExpectedBrackets(_)
ExpectedBrackets(hosts) ==
  IF hosts = <<>> THEN <<>>
  ELSE <<Item("host_begin", Head(hosts), <<>>),
         Item("host_end", Head(hosts), <<>>)>>
       \o ExpectedBrackets(Tail(hosts))

Range(f) == {f[i] : i \in DOMAIN f}

\* the line resolves to a run-command flagged interactive, by name or through
\* the default command
ResolvesToPty(l) ==
  /\ l # <<>>
  /\ Head(l) \notin {"q", "quit", "help", "h", "hosts", "cli"}
  /\ Head(l) \notin DOMAIN unet.cli_in_window_cmds
  /\ IF Head(l) \in DOMAIN unet.cli_run_cmds
     THEN unet.cli_run_cmds[Head(l)].pty
     ELSE None \in DOMAIN unet.cli_run_cmds /\ unet.cli_run_cmds[None].pty

\* the line the fan-out executor is handed names the unknown host "bad" first
NamesUnknownHost(l) ==
  \/ /\ Len(l) >= 2 /\ Head(l) = "sh" /\ l[2] = "bad"
     /\ "sh" \in DOMAIN unet.cli_run_cmds
     /\ "sh" \notin DOMAIN unet.cli_in_window_cmds
  \/ /\ l # <<>> /\ Head(l) = "bad"
     /\ None \in DOMAIN unet.cli_run_cmds

\* C1: the target list is the longest leading run of known host names and
\* the residual is the remaining tokens, also when every token is a host.
C1_PrefixIsTargets ==
  (split.called /\ LeadingHosts(split.line) > 0) =>
     /\ split.hosts = Take(split.line, LeadingHosts(split.line))
     /\ split.cmd = Drop(split.line, LeadingHosts(split.line))

\* C2: a line whose first token is not a known host (or the empty line)
\* targets all hosts in sorted order, with the whole line as the residual.
C2_NoPrefixBroadcast ==
  (split.called /\ LeadingHosts(split.line) = 0) =>
     /\ split.hosts = SortedHosts
     /\ split.cmd = split.line

\* C2 witness: host_cmd_split was called on "bad ls" and targets all hosts.
C2_Witness ==
  /\ split.called
  /\ split.line = <<"bad", "ls">>
  /\ split.hosts = <<"r1", "r2">>

\* C3: a fan-out line that names the unknown host "bad" gets exactly one
\* unknown-host diagnostic naming it, and no command runs on any host.
C3_UnknownHostRejected ==
  \A s \in Sessions :
    (sess[s].nreq > 0 /\ NamesUnknownHost(sess[s].line)) =>
       /\ sess[s].launched = <<>>
       /\ Handled(s) =>
            SinkText(s) = <<Item("unknown_hosts", "", <<"bad">>)>>

\* C4: an interactive run-command dispatched from a socket connection is
\* answered with the error diagnostic and never reaches popen.
C4_SocketPtyRejected ==
  \A c \in Conns :
    (sess[c].nreq > 0 /\ ResolvesToPty(sess[c].line)) =>
       /\ \A i \in 1..Len(sess[c].launched) : sess[c].launched[i].how # "popen"
       /\ SinkText(c) = <<Item("error_interactive", "", <<>>)>>

\* C5: between requests a connection has got exactly one ENDMARKER-terminated
\* response per line it accepted, quit and the empty line included.
C5_OneResponsePerLine ==
  \A c \in Conns :
    sess[c].pc \in {"await_line", "done", "crashed"} =>
       /\ sess[c].nresp = sess[c].nreq
       /\ sess[c].nreq > 0 =>
            /\ sess[c].out # <<>>
            /\ sess[c].out[Len(sess[c].out)] = ENDMARKER

\* C6: for the same line and the same host results, what the socket client
\* prints equals what the local session's sink gets.
C6_SocketEqualsLocal ==
  \A c \in Conns :
    ( /\ Handled(c) /\ Handled("local")
      /\ sess[c].line = sess["local"].line
      /\ sess[c].results = sess["local"].results ) =>
       ClientPrints(sess[c].out) = sess["local"].out

\* C7: a finished captured fan-out has written one begin/end pair per target,
\* in target order, when it has several targets, and no bracket otherwise.
C7_OneBlockPerHost ==
  \A s \in Sessions :
    (Handled(s) /\ sess[s].hosts # <<>>) =>
       Brackets(sess[s].out) =
         IF Len(sess[s].hosts) > 1 THEN ExpectedBrackets(sess[s].hosts)
         ELSE <<>>

\* C8: in a finished captured fan-out with a non-zero exit, the diagnostic
\* stands right before that host's output, every target's output is written
\* and doline returns True.
C8_NonZeroReported ==
  \A s \in Sessions :
    ( /\ Handled(s) /\ sess[s].hosts # <<>>
      /\ \E i \in 1..Len(sess[s].results) : sess[s].results[i] = "fail" ) =>
       /\ sess[s].ret = "continue"
       /\ \A i \in 1..Len(sess[s].hosts) :
            \E j \in 1..Len(sess[s].out) :
              /\ sess[s].out[j] = Item("output", sess[s].hosts[i], sess[s].cmd)
              /\ sess[s].results[i] = "fail" =>
                   (j > 1 /\ sess[s].out[j - 1].k = "nonzero_exit")

\* the session that read quit or q got False from doline and has ended
C9_QuitState ==
  \A s \in Sessions :
    (sess[s].nreq > 0 /\ sess[s].line # <<>>
       /\ Head(sess[s].line) \in {"q", "quit"}) =>
      (sess[s].ret = "stop" /\ sess[s].pc = "done")

\* a stopped session never changes again, and the stopping step changes no
\* other session
C9_QuitStep ==
  \A s \in Sessions :
    /\ sess[s].ret = "stop" => sess'[s] = sess[s]
    /\ (sess[s].ret # "stop" /\ sess'[s].ret = "stop") =>
         \A t \in Sessions \ {s} : sess'[t] = sess[t]

C10_HelpListsEveryCommand ==
  (sess["local"].nreq > 0 /\ sess["local"].line = <<"help">>) =>
     /\ sess["local"].ret = "continue"
     /\ Len(sess["local"].out) = 1
     /\ LET text == sess["local"].out[1].l
            rest == Drop(text, 4)
        IN  /\ Take(text, 4) = BuiltinHelp
            /\ Len(rest) = Cardinality(DOMAIN unet.cli_run_cmds)
                           + Cardinality(DOMAIN unet.cli_in_window_cmds)
            /\ \A n \in DOMAIN unet.cli_run_cmds :
                 unet.cli_run_cmds[n].disp \in Range(rest)
            /\ \A n \in DOMAIN unet.cli_in_window_cmds :
                 unet.cli_in_window_cmds[n].disp \in Range(rest)

\* the server is created at most once, and no request is creating one once
\* a path is recorded or while another request is creating one
C11_ServerState ==
  /\ unet.servers <= 1
  /\ (unet.cli_sockpath = 0) = (unet.servers = 0)
  /\ Cardinality({s \in Sessions : sess[s].pc = "start_server"})
       <= (IF unet.cli_sockpath = 0 THEN 1 ELSE 0)

\* once a path is recorded it stays and no server is started
C11_ServerStep ==
  unet.cli_sockpath # 0 =>
    (unet'.cli_sockpath = unet.cli_sockpath /\ unet'.servers = unet.servers)

\* C11: over the interleavings of cli requests of the local session and the
\* socket session the control socket server is created at most once; a
\* recorded path is reused by every later request, and two requests never
\* both pass the presence check.
C11_ServerCreatedOnce == [](C11_ServerState) /\ [][C11_ServerStep]_vars

\* C11 witness: the socket session's cli request has launched a second
\* window on the server the local session's request created.
C11_Witness ==
  /\ sess["c1"].line = <<"cli">> /\ sess["c1"].ret = "continue"
  /\ unet.windows = 2 /\ unet.servers = 1

\* C12: when spawn was entered with a controlling terminal, the discipline
\* after it has ended, by return or by exception, is the one saved on entry.
C12_TtyRestored ==
  (pty.isatty /\ pty.pc \in {"returned", "raised"}) =>
     (pty.old_tty = pty.tty0 /\ pty.tty = pty.tty0)

\* C12 witness: the relay loop raised with the terminal in raw mode and the
\* child still running, and the discipline is back.
C12_Witness ==
  /\ pty.isatty /\ pty.pc = "raised" /\ pty.child = "running"
  /\ pty.tty0 = "cbreak" /\ pty.tty = "cbreak"

\* C18: the relay loop is over once it has read the end of the terminal
\* input, and when it has ended by itself the child has exited or the end of
\* the terminal input was read.
C18_LoopEndsOnExitOrEof ==
  /\ pty.eof_seen => pty.pc \notin {"poll", "select"}
  /\ pty.pc = "returned" => (pty.child = "exited" \/ pty.eof_seen)

\* C13: in a captured fan-out the command of every targeted host has been
\* launched while any of them is awaited, and as long as one of them has not
\* completed the call has written nothing to the sink.
C13_LaunchAllThenWrite ==
  \A s \in Sessions :
    sess[s].hosts # <<>> =>
      /\ sess[s].pc = "gather" =>
           sess[s].launched = Launches("cmd", sess[s].hosts)
      /\ (\E i \in 1..Len(sess[s].results) : sess[s].results[i] = "pending")
           => (sess[s].pc = "gather" /\ sess[s].out = <<>>)

\* C13 witness: a fan-out over two hosts with one command completed and the
\* other still running.
C13_Witness ==
  /\ sess["local"].pc = "gather"
  /\ sess["local"].hosts = <<"r2", "r1">>
  /\ sess["local"].results = <<"pending", "ok">>

\* C14: a captured fan-out in which one host's command ended in an exception
\* returns without raising and has written the block of every other host.
C14_FaultCollected ==
  \A s \in Sessions :
    (/\ sess[s].hosts # <<>>
     /\ sess[s].pc # "gather"
     /\ \E i \in 1..Len(sess[s].results) : sess[s].results[i] = "exc")
    => /\ sess[s].ret = "continue"
       /\ \A i \in 1..Len(sess[s].hosts) :
            sess[s].results[i] # "exc" =>
              Item("output", sess[s].hosts[i], sess[s].cmd) \in Range(sess[s].out)

\* the rule the resolution order names for a line
FirstMatch(reg, l) ==
  LET cmd == Head(l)
  IN  IF cmd \in {"q", "quit"} THEN "quit"
      ELSE IF cmd = "help" THEN "help"
      ELSE IF cmd \in {"h", "hosts"} THEN "hosts"
      ELSE IF cmd = "cli" THEN "cli"
      ELSE IF cmd \in DOMAIN reg.cli_in_window_cmds THEN "window"
      ELSE IF cmd \in DOMAIN reg.cli_run_cmds THEN "run"
      ELSE IF None \in DOMAIN reg.cli_run_cmds THEN "default"
      ELSE "unknown"

Wrote(rec, kinds) == \E i \in 1..Len(rec.out) : rec.out[i].k \in kinds

\* the rules whose effect shows on a session that has just dispatched a line
RulesFired(rec) ==
  {r \in {"quit", "help", "hosts", "cli", "window", "run", "default",
          "unknown"} :
     \/ r = "quit" /\ rec.ret = "stop"
     \/ r = "help" /\ (Wrote(rec, {"help"}) \/ rec.pc = "crashed")
     \/ r = "hosts" /\ Wrote(rec, {"hosts"})
     \/ r = "cli" /\ rec.pc \in {"start_server", "exec_path"}
     \/ r = "window" /\ (\/ Wrote(rec, {"unknown_hosts_w", "error"})
                         \/ \E i \in 1..Len(rec.launched) :
                              rec.launched[i].how = "window")
     \/ r = "run" /\ rec.pc = "gather"
                  /\ [hosts |-> rec.hosts, cmd |-> rec.cmd]
                       = host_cmd_split(Tail(rec.line))
     \/ r = "default" /\ rec.pc = "gather"
                      /\ [hosts |-> rec.hosts, cmd |-> rec.cmd]
                           = host_cmd_split(rec.line)
     \/ r = "unknown" /\ Wrote(rec, {"unknown_command"})}

\* C15: on every session a line whose first token is a builtin starts no
\* registered command and a name in both mappings only ever launches windows;
\* on the primary CLI the effect of a line is that of exactly one rule, the
\* first that matches in the order quit, help, hosts, cli, window-command,
\* run-command, default run-command, unknown command.
C15_FirstMatchingRule ==
  \A s \in Sessions :
    sess[s].nreq > 0 =>
      LET rec == sess[s]
          cmd == Head(rec.line)
      IN  /\ cmd \in {"q", "quit", "help", "h", "hosts", "cli"} =>
               (rec.launched = <<>> /\ rec.pc # "gather")
          /\ (cmd \in DOMAIN unet.cli_in_window_cmds
                     \cap DOMAIN unet.cli_run_cmds) =>
               (/\ rec.pc # "gather"
                /\ \A i \in 1..Len(rec.launched) :
                     rec.launched[i].how = "window")
          /\ s = "local" => RulesFired(rec) = {FirstMatch(unet, rec.line)}

\* C15 witness: "sh" is registered in both mappings and the line "sh r1 ls"
\* was dispatched on the primary CLI; "hosts" is also a run-command.
C15_Witness ==
  /\ {"sh", "hosts"} \subseteq DOMAIN unet.cli_run_cmds
  /\ "sh" \in DOMAIN unet.cli_in_window_cmds
  /\ sess["local"].line = <<"sh", "r1", "ls">>
  /\ sess["local"].nreq = 2

\* C16: a line that matches no builtin and no registered name goes whole to
\* the fan-out executor when a default command is registered, so that
\* "<known host> <cmd>" runs <cmd> on that host alone and its output is
\* written without brackets; with no default the line starts nothing and the
\* sink gets the unknown-command diagnostic and nothing else.
C16_DefaultGetsWholeLine ==
  \A s \in Sessions :
    (sess[s].nreq > 0 /\ sess[s].line # <<>>) =>
      LET rec == sess[s]
          l == rec.line
      IN  /\ FirstMatch(unet, l) = "unknown" =>
               /\ rec.launched = <<>>
               /\ Handled(s) =>
                    /\ rec.ret = "continue"
                    /\ SinkText(s) = <<Item("unknown_command", "", l)>>
          /\ ( /\ FirstMatch(unet, l) = "default"
               /\ ~unet.cli_run_cmds[None].pty
               /\ LeadingHosts(l) = 1 /\ Len(l) > 1 ) =>
               /\ rec.launched = <<[how |-> "cmd", h |-> Head(l)]>>
               /\ rec.cmd = Tail(l)
               /\ (Handled(s) /\ rec.results = <<"ok">>) =>
                    SinkText(s) = <<Item("output", Head(l), Tail(l))>>

\* the host list a window-command line resolves to
WindowArgs(l) == IF Tail(l) = <<"*">> THEN SortedHosts ELSE Tail(l)

\* C17: a window-command line with an unknown name launches no window and
\* gets the unknown-host diagnostic; one whose launch fails on a host gets
\* the error diagnostic for that host; either way the dispatcher raises
\* nothing and returns "continue".
C17_WindowCommandErrors ==
  \A s \in Sessions :
    ( /\ sess[s].nreq > 0 /\ sess[s].line # <<>>
      /\ FirstMatch(unet, sess[s].line) = "window" ) =>
      LET rec == sess[s]
          args == WindowArgs(rec.line)
      IN  /\ rec.ret = "continue"
          /\ Unknowns(args) # <<>> =>
               /\ rec.launched = <<>>
               /\ SinkText(s) = <<Item("unknown_hosts_w", "", Unknowns(args))>>
          /\ Unknowns(args) = <<>> =>
               /\ rec.launched = Launches("window", Take(args, Len(rec.launched)))
               /\ SinkText(s) =
                    IF Len(rec.launched) < Len(args)
                    THEN <<Item("error", args[Len(rec.launched) + 1], <<>>)>>
                    ELSE <<>>

\* C19: with the primary CLI waiting at its prompt, a request line accepted
\* on a socket connection eventually has its ENDMARKER-terminated response
\* written.
C19_SocketServedWhileLocalWaits ==
  \A c \in Conns :
    (sess["local"].pc = "await_line" /\ sess[c].nreq > sess[c].nresp)
      ~> (sess[c].nresp = sess[c].nreq)

\* a connection has at most the response of its current line outstanding,
\* and none when its handler is back at reader.readline
C20_ResponseState ==
  \A c \in Conns :
    /\ sess[c].nresp <= sess[c].nreq
    /\ sess[c].nreq <= sess[c].nresp + 1
    /\ (sess[c].pc = "await_line" /\ sess[c].nreq > 0) =>
         /\ sess[c].nresp = sess[c].nreq
         /\ sess[c].out # <<>>
         /\ sess[c].out[Len(sess[c].out)] = ENDMARKER

\* a step that reads a line from a connection starts from a state where the
\* response to every earlier line of that connection is written, ENDMARKER
\* last
C20_ResponseStep ==
  \A c \in Conns :
    sess'[c].nreq > sess[c].nreq =>
      /\ sess[c].nresp = sess[c].nreq
      /\ sess[c].nreq > 0 =>
           (sess[c].out # <<>> /\ sess[c].out[Len(sess[c].out)] = ENDMARKER)

C21_OutputFullyForwarded ==
  pty.pc = "returned" => (pty.master = 0 /\ pty.sink = pty.written)

\* C22: a cli_client that has sent quit or q and is collecting the response
\* eventually gets out of its recv loop, by the ENDMARKER or by a closed
\* connection.
C22_ClientNotStuckAfterQuit ==
  \A c \in Conns :
    (client[c].pc = "recv" /\ sess[c].line \in {<<"quit">>, <<"q">>})
      ~> (client[c].pc # "recv")

====
